---- MODULE Spec2Model ----
(***************************************************************************)
(* Model of o3emuds.py: the emulation-core layer (EmulatorCore, the        *)
(* synthetic core, and NoGbaCore, the core bound to a native no$gba        *)
(* library through ctypes) and the places where the host constructs a      *)
(* core.  Python objects are records, None is the string "None" (for a     *)
(* path) or NoLib (for a library handle), tuples and lists are sequences.  *)
(***************************************************************************)
EXTENDS Integers, Sequences, FiniteSets, TLC

\* ------------------------------------------------------------------ bounds
\* run_frame is explored up to this frame counter (Python ints do not wrap).
MaxFrame == 3
\* An image is observed at the rows 0 .. SampleRows-1 and at the last row, in
\* the first and the last column; every observed pixel is computed as the code
\* computes it.  17 rows cover two full 8-row bands and the start of a third.
SampleRows == 17
\* The band colours are followed up to this frame counter: the top colour
\* repeats every 6 frames, the bottom colour every 8.
MaxBandFrame == 8
\* run() is explored while root.after holds fewer callbacks than this.
MaxTimers == 3

\* --------------------------------------------------------------- constants
FB_W == 256
FB_H == 192
\* What _load_library returns when no candidate loads (None); a bound library
\* is the 1-based index of the candidate that loaded.
NoLib == 0
\* 2^16: the width of c_uint16, and of one half of a 32-bit word.
U16 == 65536

\* A 32-bit unsigned value (a register, a status word) is the pair of its high
\* and low 16-bit halves: TLC's integers stop below 2^31.
W32(hi, lo) == <<hi, lo>>

\* random.choice([0x10, 0x1F, 0x13])
CpsrChoices == {W32(0, 16), W32(0, 31), W32(0, 19)}

\* ------------------------------------------------------------------ images
SampleXs == {0, FB_W - 1}
SampleYs == (0 .. (SampleRows - 1)) \cup {FB_H - 1}
Coords == SampleXs \X SampleYs

\* Image.new("RGB", (FB_W, FB_H), color)
ImageNew(color) == [size |-> <<FB_W, FB_H>>, px |-> [c \in Coords |-> color]]

Black == <<0, 0, 0>>

\* ------------------------------------------------------------ EmulatorCore
\* EmulatorCore.__init__ (NoGbaCore adds _lib; the field is NoLib on the
\* synthetic class, which never reads it).
EmulatorCore_init(cls) ==
    [cls      |-> cls,
     rom_path |-> "None",
     running  |-> FALSE,
     _frame   |-> 0,
     arm9     |-> [i \in 1..16 |-> W32(0, 0)],
     arm7     |-> [i \in 1..16 |-> W32(0, 0)],
     cpsr9    |-> W32(0, 31),
     cpsr7    |-> W32(0, 31),
     fb_top   |-> ImageNew(Black),
     fb_bot   |-> ImageNew(Black),
     _lib     |-> NoLib]

\* Every method is an operator from the object (and the call's inputs) to
\* [self: the object after the call, ret: the returned tuple (<<>> for None),
\* calls: the entry points of the native module invoked, in order].
\* EmulatorCore.load_rom: stores the path and returns True, whatever the path.
\* A faulty load_rom that also restarts the frame counter.
EmulatorCore_load_rom_Resets(self, path) ==
    [self |-> [self EXCEPT !.rom_path = path, !._frame = 0],
     ret |-> <<TRUE>>, calls |-> <<>>]

EmulatorCore_load_rom(self, path) ==
    [self |-> [self EXCEPT !.rom_path = path], ret |-> <<TRUE>>, calls |-> <<>>]

\* A faulty reset that also forgets the program path.
EmulatorCore_reset_ClearsRom(self) ==
    [self |-> [self EXCEPT !._frame = 0, !.running = FALSE,
                           !.rom_path = "None"],
     ret |-> <<>>, calls |-> <<>>]

\* A faulty reset that also re-zeroes the registers and blanks the screens.
EmulatorCore_reset_Rezeroes(self) ==
    [self |-> [self EXCEPT !._frame = 0, !.running = FALSE,
                           !.arm9 = [i \in 1..16 |-> W32(0, 0)],
                           !.arm7 = [i \in 1..16 |-> W32(0, 0)],
                           !.fb_top = ImageNew(Black),
                           !.fb_bot = ImageNew(Black)],
     ret |-> <<>>, calls |-> <<>>]

EmulatorCore_reset(self) ==
    [self |-> [self EXCEPT !._frame = 0, !.running = FALSE],
     ret |-> <<>>, calls |-> <<>>]

\* One outcome of the random module over a call of _fake_registers: the two
\* register files and the two status words.
_fake_registers(self, rnd) ==
    [self EXCEPT !.arm9 = rnd.r9, !.arm7 = rnd.r7,
                 !.cpsr9 = rnd.c9, !.cpsr7 = rnd.c7]

\* A faulty _fake_framebuffers that colours the bands from the registers drawn.
_fake_framebuffers_FromRegisters(self) ==
    LET c1 == <<60 + 10 * (self.arm9[1][2] % 6), 50, 255>>
        c2 == <<255, 60 + 7 * (self.arm7[1][2] % 8), 80>>
    IN [self EXCEPT
          !.fb_top.px = [c \in Coords |->
                           IF (c[2] \div 8) % 2 = 0 THEN c1 ELSE <<42, 54, 84>>],
          !.fb_bot.px = [c \in Coords |->
                           IF (c[2] \div 8) % 2 = 0 THEN c2 ELSE <<34, 34, 34>>]]

\* A faulty _fake_framebuffers whose band colours ignore the frame counter.
_fake_framebuffers_Frozen(self) ==
    LET c1 == <<60, 50, 255>>
        c2 == <<255, 60, 80>>
    IN [self EXCEPT
          !.fb_top.px = [c \in Coords |->
                           IF (c[2] \div 8) % 2 = 0 THEN c1 ELSE <<42, 54, 84>>],
          !.fb_bot.px = [c \in Coords |->
                           IF (c[2] \div 8) % 2 = 0 THEN c2 ELSE <<34, 34, 34>>]]

\* putpixel on every (x, y) of the two existing images.
_fake_framebuffers(self) ==
    LET c1 == <<60 + 10 * (self._frame % 6), 50, 255>>
        c2 == <<255, 60 + 7 * (self._frame % 8), 80>>
    IN [self EXCEPT
          !.fb_top.px = [c \in Coords |->
                           IF (c[2] \div 8) % 2 = 0 THEN c1 ELSE <<42, 54, 84>>],
          !.fb_bot.px = [c \in Coords |->
                           IF (c[2] \div 8) % 2 = 0 THEN c2 ELSE <<34, 34, 34>>]]

EmulatorCore_run_frame(self, rnd) ==
    [self |-> _fake_framebuffers(
                  _fake_registers([self EXCEPT !._frame = @ + 1], rnd)),
     ret |-> <<>>, calls |-> <<>>]

get_registers(self) == <<self.arm9, self.arm7, self.cpsr9, self.cpsr7>>

get_framebuffers(self) == <<self.fb_top, self.fb_bot>>


\* ---------------------------------------------------------- the environment
\* What the process finds outside itself: the platform, the shared libraries
\* ctypes.CDLL can load (by the path given to it), the entry points the module
\* exports and what its nogba_init returns.
EntryPoints ==
    {"nogba_init", "nogba_reset", "nogba_load_rom", "nogba_run_frame",
     "nogba_get_arm9_regs", "nogba_get_arm7_regs",
     "nogba_get_framebuffer_top", "nogba_get_framebuffer_bot"}

LibraryPaths ==
    {"nogba.dll", "libnogba.so", "<dir>/nogba.dll", "<dir>/libnogba.so"}

\* The program paths handed to load_rom, and those that name a readable file.
Paths == {"game.nds", "missing.nds"}
ReadablePaths == {"game.nds"}

\* int nogba_load_rom(const char *path): the module cannot load a file that is
\* not there; it may reject one that is (the format is its concern).
NogbaLoadRomStatuses(path) == IF path \in ReadablePaths THEN {0, 1} ELSE {1}

\* ---------------------------------------------------------------- NoGbaCore
candidates(os_name) ==
    <<IF os_name = "nt" THEN "nogba.dll" ELSE "libnogba.so",
      "<dir>/nogba.dll",
      "<dir>/libnogba.so">>

\* The for loop of _load_library from candidate i on: ctypes.CDLL(path) raises
\* OSError for a path that does not load, and the loop continues.
RECURSIVE LoadFrom(_, _, _, _)
LoadFrom(files, cands, i, tried) ==
    IF i > Len(cands)
    THEN [lib |-> NoLib, tried |-> tried, exc |-> "none"]
    ELSE IF cands[i] \in files
         THEN [lib |-> i, tried |-> Append(tried, cands[i]), exc |-> "none"]
         ELSE LoadFrom(files, cands, i + 1, Append(tried, cands[i]))

\* A faulty _load_library that gives up after the first candidate.
_load_library_FirstOnly(env) ==
    LoadFrom(env.files, SubSeq(candidates(env.os_name), 1, 1), 1, <<>>)

_load_library(env) == LoadFrom(env.files, candidates(env.os_name), 1, <<>>)

\* The attribute reads of _init_functions, in order: each resolves a symbol of
\* the library, and ctypes raises AttributeError for one that is not exported.
InitFunctionsOrder ==
    <<"nogba_init", "nogba_reset", "nogba_load_rom", "nogba_load_rom",
      "nogba_run_frame", "nogba_get_arm9_regs", "nogba_get_arm7_regs",
      "nogba_get_framebuffer_top", "nogba_get_framebuffer_bot">>

RECURSIVE ResolveFrom(_, _, _)
ResolveFrom(exports, i, resolved) ==
    IF i > Len(InitFunctionsOrder)
    THEN [resolved |-> resolved, exc |-> "none"]
    ELSE IF InitFunctionsOrder[i] \in exports
         THEN ResolveFrom(exports, i + 1, resolved \cup {InitFunctionsOrder[i]})
         ELSE [resolved |-> resolved, exc |-> "AttributeError"]

\* A faulty _init_functions that resolves only what the library exports and
\* never raises.
_init_functions_Lazy(env) ==
    [resolved |-> env.exports \cap EntryPoints, exc |-> "none"]

_init_functions(env) == ResolveFrom(env.exports, 1, {})

\* A faulty constructor that does not look at what nogba_init returns.
NoGbaCore_init_IgnoresStatus(env) ==
    LET ld   == _load_library(env)
        self == [EmulatorCore_init("NoGbaCore") EXCEPT !._lib = ld.lib]
        fn   == _init_functions(env)
    IN IF self._lib = NoLib
       THEN [self |-> self, exc |-> "none", tried |-> ld.tried,
             resolved |-> {}, calls |-> <<>>]
       ELSE IF fn.exc # "none"
       THEN [self |-> self, exc |-> fn.exc, tried |-> ld.tried,
             resolved |-> fn.resolved, calls |-> <<>>]
       ELSE [self |-> self, exc |-> "none", tried |-> ld.tried,
             resolved |-> fn.resolved, calls |-> <<"nogba_init">>]

\* NoGbaCore.__init__: [self: the object as the constructor leaves it,
\* exc: the exception it raises ("none": it returns), tried: the candidates
\* _load_library tried, resolved: the entry points resolved, calls].
NoGbaCore_init(env) ==
    LET ld   == _load_library(env)
        self == [EmulatorCore_init("NoGbaCore") EXCEPT !._lib = ld.lib]
        fn   == _init_functions(env)
    IN IF ld.exc # "none"
       THEN [self |-> EmulatorCore_init("NoGbaCore"), exc |-> ld.exc,
             tried |-> ld.tried, resolved |-> {}, calls |-> <<>>]
       ELSE IF self._lib = NoLib
       THEN [self |-> self, exc |-> "none", tried |-> ld.tried,
             resolved |-> {}, calls |-> <<>>]
       ELSE IF fn.exc # "none"
       THEN [self |-> self, exc |-> fn.exc, tried |-> ld.tried,
             resolved |-> fn.resolved, calls |-> <<>>]
       ELSE IF env.init_status # 0
       THEN [self |-> self, exc |-> "RuntimeError", tried |-> ld.tried,
             resolved |-> fn.resolved, calls |-> <<"nogba_init">>]
       ELSE [self |-> self, exc |-> "none", tried |-> ld.tried,
             resolved |-> fn.resolved, calls |-> <<"nogba_init">>]

\* A faulty load_rom that stores the path before it looks at the status.
NoGbaCore_load_rom_Eager(self, path, status) ==
    IF self._lib = NoLib
    THEN EmulatorCore_load_rom(self, path)
    ELSE [self |-> [self EXCEPT !.rom_path = path], ret |-> <<status = 0>>,
          calls |-> <<"nogba_load_rom">>]

\* status: what the module's nogba_load_rom returns when it is called.
NoGbaCore_load_rom(self, path, status) ==
    IF self._lib = NoLib
    THEN EmulatorCore_load_rom(self, path)
    ELSE IF status # 0
    THEN [self |-> self, ret |-> <<FALSE>>, calls |-> <<"nogba_load_rom">>]
    ELSE [self |-> [self EXCEPT !.rom_path = path], ret |-> <<TRUE>>,
          calls |-> <<"nogba_load_rom">>]

\* A faulty reset that reaches the base class only when a library is bound.
NoGbaCore_reset_LibOnly(self) ==
    IF self._lib # NoLib
    THEN [EmulatorCore_reset(self) EXCEPT !.calls = <<"nogba_reset">>]
    ELSE [self |-> self, ret |-> <<>>, calls |-> <<>>]

NoGbaCore_reset(self) ==
    [EmulatorCore_reset(self) EXCEPT
       !.calls = IF self._lib # NoLib THEN <<"nogba_reset">> ELSE <<>>]

\* A faulty _pull_registers that keeps all 17 words of each block.
_pull_registers_All17(self, out) ==
    [self EXCEPT !.arm9  = out.regs9,
                 !.cpsr9 = out.regs9[17],
                 !.arm7  = out.regs7,
                 !.cpsr7 = out.regs7[17]]

\* out: what the module writes into the buffers handed to it in this frame.
\* arr is reused for both CPUs; list(arr)[:16] are the registers, arr[16] the
\* status word.
_pull_registers(self, out) ==
    [self EXCEPT !.arm9  = SubSeq(out.regs9, 1, 16),
                 !.cpsr9 = out.regs9[17],
                 !.arm7  = SubSeq(out.regs7, 1, 16),
                 !.cpsr7 = out.regs7[17]]

\* A faulty conversion that reads the pixel as 5-5-5 bits.
ConvertPixel_RGB555(pix) ==
    <<((pix \div 1024) % 32) * 8, ((pix \div 32) % 32) * 8, (pix % 32) * 8>>

\* RGB565 to RGB888, one pixel.
ConvertPixel(pix) ==
    <<((pix \div 2048) % 32) * 8, ((pix \div 32) % 64) * 4, (pix % 32) * 8>>

\* convert(src): a new image, pixel i of the buffer at (i % FB_W, i // FB_W).
convert(src) ==
    [size |-> <<FB_W, FB_H>>,
     px   |-> [c \in Coords |->
                 LET i == CHOOSE j \in DOMAIN src :
                              <<j % FB_W, j \div FB_W>> = c
                 IN ConvertPixel(src[i])]]

\* A faulty _pull_framebuffers that replaces the top image only.
_pull_framebuffers_TopOnly(self, out) ==
    [self EXCEPT !.fb_top = convert(out.top)]

_pull_framebuffers(self, out) ==
    [self EXCEPT !.fb_top = convert(out.top), !.fb_bot = convert(out.bot)]

\* A faulty run_frame that forgets the increment on the library path.
NoGbaCore_run_frame_NoIncrement(self, rnd, out) ==
    IF self._lib = NoLib
    THEN EmulatorCore_run_frame(self, rnd)
    ELSE [self  |-> _pull_framebuffers(_pull_registers(self, out), out),
          ret   |-> <<>>,
          calls |-> <<"nogba_run_frame", "nogba_get_arm9_regs",
                      "nogba_get_arm7_regs", "nogba_get_framebuffer_top",
                      "nogba_get_framebuffer_bot">>]

NoGbaCore_run_frame(self, rnd, out) ==
    IF self._lib = NoLib
    THEN EmulatorCore_run_frame(self, rnd)
    ELSE [self  |-> [_pull_framebuffers(_pull_registers(self, out), out)
                       EXCEPT !._frame = @ + 1],
          ret   |-> <<>>,
          calls |-> <<"nogba_run_frame", "nogba_get_arm9_regs",
                      "nogba_get_arm7_regs", "nogba_get_framebuffer_top",
                      "nogba_get_framebuffer_bot">>]

\* Method dispatch on the object's class.
load_rom(self, path, status) ==
    IF self.cls = "NoGbaCore" THEN NoGbaCore_load_rom(self, path, status)
    ELSE EmulatorCore_load_rom(self, path)

reset(self) ==
    IF self.cls = "NoGbaCore" THEN NoGbaCore_reset(self)
    ELSE EmulatorCore_reset(self)

run_frame(self, rnd, out) ==
    IF self.cls = "NoGbaCore" THEN NoGbaCore_run_frame(self, rnd, out)
    ELSE EmulatorCore_run_frame(self, rnd)

\* ------------------------------------------------------- the host's startup
\* NoCore: the host holds no core object (an optional object is a sequence of
\* length 0 or 1).
NoCore == <<>>

\* EmuDSNoGBA.__init__(root, core): self.core = core or NoGbaCore(); an
\* exception of the constructor propagates (exc), and no GUI object results.
EmuDSNoGBA_init(arg, env) ==
    LET r == NoGbaCore_init(env)
    IN IF arg # NoCore
       THEN [core |-> arg, exc |-> "none", attempt |-> NoCore, ctor |-> "none",
             tried |-> <<>>, resolved |-> {}, calls |-> <<>>]
       ELSE IF r.exc = "none"
       THEN [core |-> <<r.self>>, exc |-> "none", attempt |-> NoCore,
             ctor |-> "none",
             tried |-> r.tried, resolved |-> r.resolved, calls |-> r.calls]
       ELSE [core |-> NoCore, exc |-> r.exc, attempt |-> <<r.self>>,
             ctor |-> r.exc,
             tried |-> r.tried, resolved |-> r.resolved, calls |-> r.calls]

\* The __main__ block: try NoGbaCore(), except Exception fall back to
\* EmulatorCore(); then EmuDSNoGBA(root, core).  attempt is the NoGbaCore
\* object whose constructor raised (nothing refers to it any more), ctor the
\* exception that constructor raised.
main(env) ==
    LET r    == NoGbaCore_init(env)
        core == IF r.exc = "none" THEN <<r.self>>
                ELSE <<EmulatorCore_init("EmulatorCore")>>
        gui  == EmuDSNoGBA_init(core, env)
    IN [core |-> gui.core, exc |-> gui.exc,
        attempt |-> IF r.exc = "none" THEN NoCore ELSE <<r.self>>,
        ctor |-> r.exc,
        tried |-> r.tried, resolved |-> r.resolved, calls |-> r.calls]

\* ------------------------------------------------------------- EmuDSNoGBA
\* The GUI object g: rom_name, running, what reg_text shows (the tuple
\* _draw_registers formats) and what the two screen labels show (copies of
\* the framebuffers), and the status bar's text.  The memory view holds 256
\* random bytes that come from no core state and is left out.
_draw_registers(g, c) == [g EXCEPT !.reg_text = get_registers(c)]

_draw_screens(g, c) == [g EXCEPT !.screens = get_framebuffers(c)]

set_status(g, msg) == [g EXCEPT !.statusbar = msg]

\* The rest of EmuDSNoGBA.__init__, once self.core is c.
EmuDSNoGBA_new(c) ==
    set_status(_draw_screens(_draw_registers(
        [rom_name |-> "NO GAME", running |-> FALSE, reg_text |-> <<>>,
         screens |-> <<>>, statusbar |-> ""], c), c), "Ready.")

\* Every handler is an operator from the GUI object g and its core c to
\* [gui, core, calls (module entry points invoked), after (callbacks handed
\* to root.after), stepped (run_frame was called), was_reset].
EmuDSNoGBA_reset(g, c) ==
    LET r == reset(c)
    IN [gui   |-> set_status(_draw_screens(_draw_registers(
                      [g EXCEPT !.running = FALSE], r.self), r.self),
                      "System reset."),
        core  |-> r.self, calls |-> r.calls, after |-> 0,
        stepped |-> FALSE, was_reset |-> TRUE]

\* fname: what the file dialog returned ("": cancelled); st: what the
\* module's nogba_load_rom returns when it is called.
EmuDSNoGBA_load_rom(g, c, fname, st) ==
    LET r  == load_rom(c, fname, st)
        rs == EmuDSNoGBA_reset(set_status([g EXCEPT !.rom_name = fname],
                                      "Loaded"), r.self)
    IN IF fname = ""
       THEN [gui |-> set_status(g, "ROM load cancelled."), core |-> c,
             calls |-> <<>>, after |-> 0, stepped |-> FALSE,
             was_reset |-> FALSE]
       ELSE IF r.ret # <<TRUE>>
       THEN [gui |-> set_status(g, "Failed to load ROM in backend core."),
             core |-> r.self, calls |-> r.calls, after |-> 0,
             stepped |-> FALSE, was_reset |-> FALSE]
       ELSE [rs EXCEPT !.calls = r.calls \o rs.calls]

\* A faulty _animate that steps whether or not the loop is running.
_animate_NoCheck(g, c, rnd, out) ==
    LET r == run_frame(c, rnd, out)
    IN [gui   |-> _draw_screens(_draw_registers(g, r.self), r.self),
        core  |-> r.self, calls |-> r.calls, after |-> 1,
        stepped |-> TRUE, was_reset |-> FALSE]

_animate(g, c, rnd, out) ==
    LET r == run_frame(c, rnd, out)
    IN IF ~g.running
       THEN [gui |-> g, core |-> c, calls |-> <<>>, after |-> 0,
             stepped |-> FALSE, was_reset |-> FALSE]
       ELSE [gui   |-> _draw_screens(_draw_registers(g, r.self), r.self),
             core  |-> r.self, calls |-> r.calls, after |-> 1,
             stepped |-> TRUE, was_reset |-> FALSE]

EmuDSNoGBA_run(g, c, rnd, out) ==
    IF g.rom_name = "NO GAME"
    THEN [gui |-> set_status(g, "No ROM loaded."), core |-> c, calls |-> <<>>,
          after |-> 0, stepped |-> FALSE, was_reset |-> FALSE]
    ELSE IF g.running
    THEN [gui |-> g, core |-> c, calls |-> <<>>, after |-> 0,
          stepped |-> FALSE, was_reset |-> FALSE]
    ELSE _animate(set_status([g EXCEPT !.running = TRUE],
                         "Emulation running..."), c, rnd, out)

EmuDSNoGBA_stop(g, c) ==
    [gui |-> set_status([g EXCEPT !.running = FALSE], "Emulation stopped."),
     core |-> c, calls |-> <<>>, after |-> 0, stepped |-> FALSE,
     was_reset |-> FALSE]

\* ------------------------------------------------------------------ inputs
\* The library files explored: none, each one alone, all four.
FileSets == {{}} \cup {{f} : f \in LibraryPaths} \cup {LibraryPaths}

\* The export tables explored: complete, and each entry point missing alone.
ExportSets == {EntryPoints} \cup {EntryPoints \ {e} : e \in EntryPoints}

\* A module that never loads shows neither exports nor an init status, and
\* one whose symbols do not resolve is never initialised: those fields are
\* fixed there.
Envs ==
    {e \in [os_name : {"nt", "posix"}, files : FileSets,
            exports : ExportSets, init_status : {0, 1}] :
        /\ e.exports # EntryPoints => e.init_status = 0
        /\ _load_library(e).lib = NoLib =>
              e.exports = EntryPoints /\ e.init_status = 0}

\* The outcomes of the random module explored for one _fake_registers call:
\* randint(0, 0xFFFFFFFF) per register, random.choice per status word.
Draw(hi, lo, c9, c7) ==
    [r9 |-> [i \in 1..16 |-> W32(hi, (lo + i) % U16)],
     r7 |-> [i \in 1..16 |-> W32((hi + i) % U16, lo)],
     c9 |-> c9, c7 |-> c7]

RndDraws ==
    {Draw(0, 0, W32(0, 16), W32(0, 31)),
     Draw(65535, 65535, W32(0, 31), W32(0, 19)),
     Draw(4660, 22136, W32(0, 19), W32(0, 16))}

\* What the module hands back in one frame: two 17-word register blocks and
\* two 16-bit pixel buffers, indexed row-major from 0 (observed where the
\* images are).
BufIdx == {c[2] * FB_W + c[1] : c \in Coords}

ModuleOutputs ==
    {[regs9 |-> [i \in 1..17 |-> W32(0, i)],
      regs7 |-> [i \in 1..17 |-> W32(65535, U16 - i)],
      top   |-> [i \in BufIdx |-> i % U16],
      bot   |-> [i \in BufIdx |-> (U16 - 1 - i) % U16]],
     [regs9 |-> [i \in 1..17 |-> W32(i, 0)],
      regs7 |-> [i \in 1..17 |-> W32(0, 0)],
      top   |-> [i \in BufIdx |-> (63519 + i) % U16],
      bot   |-> [i \in BufIdx |-> 2016]]}

Range(seq) == {seq[i] : i \in DOMAIN seq}

\* ------------------------------------------------------------------- state
VARIABLES
    env,       \* the environment the process runs in
    pc,        \* "start", "ready" (the host holds a core), "crashed" (the
               \* exception of a constructor left the host's startup)
    site,      \* where the core was constructed: "main" or "gui"
    core,      \* the core the host holds (NoCore: none)
    attempt,   \* the NoGbaCore object whose constructor raised (NoCore: none)
    ctor,      \* the exception NoGbaCore.__init__ raised ("none": none)
    tried,     \* the candidates _load_library tried, in order
    resolved,  \* the entry points _init_functions resolved
    called,    \* the entry points of the module invoked so far
    lastOp,    \* the last call: [op, arg, ret, status (of the module's
               \* nogba_load_rom, -1 when it was not called)]
    steps,     \* run_frame calls since the last reset (or construction)
    core2,     \* a second, independent core (the pair specification)
    gui,       \* the EmuDSNoGBA object (NoGui: none): rom_name, running and
               \* what its widgets show
    timers,    \* the _animate callbacks root.after holds, not yet fired
    lastStep,  \* the inputs of the last completed run_frame of the host
               \* loop (<<>>: none yet)
    pixel,     \* the pixel converter's input and output (<<>>: unused)
    seen       \* the band colours a stepped core has shown (<<>>: unused)

\* The host loop, the pixel converter and the band colours have specifications
\* of their own; elsewhere their variables rest.
others == <<gui, timers, lastStep, pixel, seen>>

vars == <<env, pc, site, core, attempt, ctor, tried, resolved, called,
          lastOp, steps, core2, gui, timers, lastStep, pixel, seen>>

NoGui == <<>>

OthersIdle ==
    /\ gui = NoGui
    /\ timers = 0
    /\ lastStep = <<>>
    /\ pixel = <<>>
    /\ seen = <<>>

Init ==
    /\ env \in Envs
    /\ pc = "start"
    /\ site = "none"
    /\ core = NoCore
    /\ attempt = NoCore
    /\ ctor = "none"
    /\ tried = <<>>
    /\ resolved = {}
    /\ called = {}
    /\ lastOp = [op |-> "none", arg |-> "None", ret |-> <<>>, status |-> -1]
    /\ steps = 0
    /\ core2 = NoCore
    /\ OthersIdle

\* The startup through st, the outcome of a construction site.
Startup(st, where) ==
    /\ pc = "start"
    /\ pc' = IF st.exc = "none" THEN "ready" ELSE "crashed"
    /\ site' = where
    /\ core' = st.core
    /\ attempt' = st.attempt
    /\ ctor' = st.ctor
    /\ tried' = st.tried
    /\ resolved' = st.resolved
    /\ called' = Range(st.calls)
    /\ lastOp' = [op |-> "__init__", arg |-> "None", ret |-> <<>>,
                  status |-> -1]
    /\ UNCHANGED <<env, steps, core2>>
    /\ UNCHANGED others

\* python o3emuds.py
Main == Startup(main(env), "main")

\* EmuDSNoGBA(root): the GUI constructed with its default core argument.
Gui == Startup(EmuDSNoGBA_init(NoCore, env), "gui")

\* A call of a method of the host's core, with result r.
Call(op, arg, r, status) ==
    /\ core' = <<r.self>>
    /\ called' = called \cup Range(r.calls)
    /\ lastOp' = [op |-> op, arg |-> arg, ret |-> r.ret,
                  status |-> IF "nogba_load_rom" \in Range(r.calls)
                             THEN status ELSE -1]
    /\ UNCHANGED <<env, pc, site, attempt, ctor, tried, resolved, core2>>
    /\ UNCHANGED others

LoadRom ==
    /\ pc = "ready"
    /\ \E path \in Paths : \E status \in NogbaLoadRomStatuses(path) :
          Call("load_rom", path, load_rom(core[1], path, status), status)
    /\ UNCHANGED steps

Reset ==
    /\ pc = "ready"
    /\ Call("reset", "None", reset(core[1]), -1)
    /\ steps' = 0

RunFrame ==
    /\ pc = "ready"
    /\ core[1]._frame < MaxFrame
    /\ \E rnd \in RndDraws : \E out \in ModuleOutputs :
          Call("run_frame", "None", run_frame(core[1], rnd, out), -1)
    /\ steps' = steps + 1

GetRegisters ==
    /\ pc = "ready"
    /\ Call("get_registers", "None",
            [self |-> core[1], ret |-> get_registers(core[1]),
             calls |-> <<>>], -1)
    /\ UNCHANGED steps

GetFramebuffers ==
    /\ pc = "ready"
    /\ Call("get_framebuffers", "None",
            [self |-> core[1], ret |-> get_framebuffers(core[1]),
             calls |-> <<>>], -1)
    /\ UNCHANGED steps

Next ==
    \/ Main
    \/ Gui
    \/ LoadRom
    \/ Reset
    \/ RunFrame
    \/ GetRegisters
    \/ GetFramebuffers

Spec == Init /\ [][Next]_vars

\* ------------------------------------------------- two independent cores
\* Two cores constructed side by side where no library loads, stepped and
\* reset independently, each with its own draws of the random module.
PairEnv ==
    [os_name |-> "posix", files |-> {}, exports |-> EntryPoints,
     init_status |-> 0]

InitPair ==
    /\ env = PairEnv
    /\ pc = "pair"
    /\ site = "none"
    /\ core = <<EmulatorCore_init("EmulatorCore")>>
    /\ core2 \in {<<EmulatorCore_init("EmulatorCore")>>,
                  <<NoGbaCore_init(PairEnv).self>>}
    /\ attempt = NoCore
    /\ ctor = "none"
    /\ tried = <<>>
    /\ resolved = {}
    /\ called = {}
    /\ lastOp = [op |-> "none", arg |-> "None", ret |-> <<>>, status |-> -1]
    /\ steps = 0
    /\ OthersIdle

PairRunFrame1 ==
    /\ pc = "pair"
    /\ core[1]._frame < MaxFrame
    /\ \E rnd \in RndDraws : \E out \in ModuleOutputs :
          core' = <<run_frame(core[1], rnd, out).self>>
    /\ UNCHANGED <<env, pc, site, attempt, ctor, tried, resolved, called,
                   lastOp, steps, core2>>
    /\ UNCHANGED others

PairRunFrame2 ==
    /\ pc = "pair"
    /\ core2[1]._frame < MaxFrame
    /\ \E rnd \in RndDraws : \E out \in ModuleOutputs :
          core2' = <<run_frame(core2[1], rnd, out).self>>
    /\ UNCHANGED <<env, pc, site, attempt, ctor, tried, resolved, called,
                   lastOp, steps, core>>
    /\ UNCHANGED others

PairReset1 ==
    /\ pc = "pair"
    /\ core' = <<reset(core[1]).self>>
    /\ UNCHANGED <<env, pc, site, attempt, ctor, tried, resolved, called,
                   lastOp, steps, core2>>
    /\ UNCHANGED others

PairReset2 ==
    /\ pc = "pair"
    /\ core2' = <<reset(core2[1]).self>>
    /\ UNCHANGED <<env, pc, site, attempt, ctor, tried, resolved, called,
                   lastOp, steps, core>>
    /\ UNCHANGED others

NextPair ==
    \/ PairRunFrame1
    \/ PairRunFrame2
    \/ PairReset1
    \/ PairReset2

SpecPair == InitPair /\ [][NextPair]_vars

\* ------------------------------------------------- the two classes, in step
\* An EmulatorCore and a NoGbaCore constructed where no library loads, given
\* the same calls with the same arguments; each step draws its own registers.
InitTwin ==
    /\ env = PairEnv
    /\ pc = "twin"
    /\ site = "none"
    /\ core = <<EmulatorCore_init("EmulatorCore")>>
    /\ core2 = <<NoGbaCore_init(PairEnv).self>>
    /\ attempt = NoCore
    /\ ctor = NoGbaCore_init(PairEnv).exc
    /\ tried = NoGbaCore_init(PairEnv).tried
    /\ resolved = NoGbaCore_init(PairEnv).resolved
    /\ called = Range(NoGbaCore_init(PairEnv).calls)
    /\ lastOp = [op |-> "__init__", arg |-> "None", ret |-> <<>>,
                 status |-> -1]
    /\ steps = 0
    /\ OthersIdle

\* One call on both cores, with results r1 and r2; ret holds both results.
TwinCall(op, arg, r1, r2) ==
    /\ pc = "twin"
    /\ core' = <<r1.self>>
    /\ core2' = <<r2.self>>
    /\ called' = called \cup Range(r1.calls) \cup Range(r2.calls)
    /\ lastOp' = [op |-> op, arg |-> arg, ret |-> <<r1.ret, r2.ret>>,
                  status |-> -1]
    /\ UNCHANGED <<env, pc, site, attempt, ctor, tried, resolved>>
    /\ UNCHANGED others

TwinLoadRom ==
    /\ \E path \in Paths : \E status \in NogbaLoadRomStatuses(path) :
          TwinCall("load_rom", path, load_rom(core[1], path, status),
                   load_rom(core2[1], path, status))
    /\ UNCHANGED steps

TwinReset ==
    /\ TwinCall("reset", "None", reset(core[1]), reset(core2[1]))
    /\ steps' = 0

TwinRunFrame ==
    /\ steps < MaxFrame
    /\ \E rnd1 \in RndDraws : \E rnd2 \in RndDraws : \E out \in ModuleOutputs :
          TwinCall("run_frame", "None", run_frame(core[1], rnd1, out),
                   run_frame(core2[1], rnd2, out))
    /\ steps' = steps + 1

NextTwin ==
    \/ TwinLoadRom
    \/ TwinReset
    \/ TwinRunFrame

SpecTwin == InitTwin /\ [][NextTwin]_vars

\* ------------------------------------------------------ the pixel converter
\* Every 16-bit value a buffer can hold, converted as convert does per pixel.
InitPixel ==
    /\ env = PairEnv
    /\ pc = "pixel"
    /\ site = "none"
    /\ core = NoCore
    /\ core2 = NoCore
    /\ attempt = NoCore
    /\ ctor = "none"
    /\ tried = <<>>
    /\ resolved = {}
    /\ called = {}
    /\ lastOp = [op |-> "none", arg |-> "None", ret |-> <<>>, status |-> -1]
    /\ steps = 0
    /\ gui = NoGui
    /\ timers = 0
    /\ lastStep = <<>>
    /\ seen = <<>>
    /\ pixel \in {[src |-> p, rgb |-> <<>>] : p \in 0 .. (U16 - 1)}

ConvertOne ==
    /\ pc = "pixel"
    /\ pixel.rgb = <<>>
    /\ pixel' = [pixel EXCEPT !.rgb = ConvertPixel(pixel.src)]
    /\ UNCHANGED <<env, pc, site, core, attempt, ctor, tried, resolved,
                   called, lastOp, steps, core2, gui, timers, lastStep, seen>>

NextPixel == ConvertOne

SpecPixel == InitPixel /\ [][NextPixel]_vars

\* --------------------------------------------------------- the band colours
\* A core without a library, stepped and reset; seen collects the colours its
\* framebuffers have shown after a step, per image and per band parity
\* ((y // 8) % 2: 0 for the bands that start at row 0).
BandColours(img, parity) ==
    {img.px[c] : c \in {d \in Coords : (d[2] \div 8) % 2 = parity}}

InitBands ==
    /\ env = PairEnv
    /\ pc = "bands"
    /\ site = "none"
    /\ core \in {<<EmulatorCore_init("EmulatorCore")>>,
                 <<NoGbaCore_init(PairEnv).self>>}
    /\ core2 = NoCore
    /\ attempt = NoCore
    /\ ctor = "none"
    /\ tried = <<>>
    /\ resolved = {}
    /\ called = {}
    /\ lastOp = [op |-> "none", arg |-> "None", ret |-> <<>>, status |-> -1]
    /\ steps = 0
    /\ gui = NoGui
    /\ timers = 0
    /\ lastStep = <<>>
    /\ pixel = <<>>
    /\ seen = [top0 |-> {}, top1 |-> {}, bot0 |-> {}, bot1 |-> {}]

BandRunFrame ==
    /\ pc = "bands"
    /\ core[1]._frame < MaxBandFrame
    /\ \E rnd \in RndDraws : \E out \in ModuleOutputs :
          LET new == run_frame(core[1], rnd, out).self
          IN /\ core' = <<new>>
             /\ seen' = [top0 |-> seen.top0 \cup BandColours(new.fb_top, 0),
                         top1 |-> seen.top1 \cup BandColours(new.fb_top, 1),
                         bot0 |-> seen.bot0 \cup BandColours(new.fb_bot, 0),
                         bot1 |-> seen.bot1 \cup BandColours(new.fb_bot, 1)]
    /\ UNCHANGED <<env, pc, site, attempt, ctor, tried, resolved, called,
                   lastOp, steps, core2, gui, timers, lastStep, pixel>>

BandReset ==
    /\ pc = "bands"
    /\ core' = <<reset(core[1]).self>>
    /\ UNCHANGED <<env, pc, site, attempt, ctor, tried, resolved, called,
                   lastOp, steps, core2, gui, timers, lastStep, pixel, seen>>

NextBands ==
    \/ BandRunFrame
    \/ BandReset

SpecBands == InitBands /\ [][NextBands]_vars

\* ------------------------------------------------------------ the host loop
\* The program after python o3emuds.py has built its window: the menu
\* commands and the callbacks of root.after, one at a time on Tk's thread.
HostEnvs ==
    {e \in Envs : /\ e.os_name = "posix"
                  /\ e.files \in {{}, {"libnogba.so"}}
                  /\ e.exports = EntryPoints}

InitHost ==
    /\ env \in HostEnvs
    /\ pc = "host"
    /\ site = "main"
    /\ core = main(env).core
    /\ attempt = main(env).attempt
    /\ ctor = main(env).ctor
    /\ tried = main(env).tried
    /\ resolved = main(env).resolved
    /\ called = Range(main(env).calls)
    /\ lastOp = [op |-> "__init__", arg |-> "None", ret |-> <<>>,
                 status |-> -1]
    /\ steps = 0
    /\ core2 = NoCore
    /\ gui = <<EmuDSNoGBA_new(main(env).core[1])>>
    /\ timers = 0
    /\ lastStep = <<>>
    /\ pixel = <<>>
    /\ seen = <<>>

\* One handler run to completion with result r; fired: the callbacks of
\* root.after this run consumed; drawn: the <<rnd, out>> a step would use.
Handle(op, arg, r, fired, drawn) ==
    /\ r.stepped => core[1]._frame < MaxFrame
    /\ gui' = <<r.gui>>
    /\ core' = <<r.core>>
    /\ called' = called \cup Range(r.calls)
    /\ timers' = timers - fired + r.after
    /\ steps' = IF r.was_reset THEN 0
                ELSE IF r.stepped THEN steps + 1 ELSE steps
    /\ lastStep' = IF r.stepped
                   THEN <<[rnd |-> drawn[1], out |-> drawn[2],
                           n |-> r.core._frame]>>
                   ELSE lastStep
    /\ lastOp' = [op |-> op, arg |-> arg, ret |-> <<>>, status |-> -1]
    /\ UNCHANGED <<env, pc, site, attempt, ctor, tried, resolved, core2,
                   pixel, seen>>

\* File > Load Game...
HostLoadRom ==
    /\ pc = "host"
    /\ \E fname \in Paths \cup {""} : \E st \in NogbaLoadRomStatuses(fname) :
          Handle("gui.load_rom", fname,
                 EmuDSNoGBA_load_rom(gui[1], core[1], fname, st), 0, <<>>)

\* Emulation > Run
HostRun ==
    /\ pc = "host"
    /\ timers < MaxTimers
    /\ \E rnd \in RndDraws : \E out \in ModuleOutputs :
          Handle("gui.run", "None",
                 EmuDSNoGBA_run(gui[1], core[1], rnd, out), 0, <<rnd, out>>)

\* Emulation > Stop
HostStop ==
    /\ pc = "host"
    /\ Handle("gui.stop", "None", EmuDSNoGBA_stop(gui[1], core[1]), 0, <<>>)

\* Emulation > Reset
HostReset ==
    /\ pc = "host"
    /\ Handle("gui.reset", "None", EmuDSNoGBA_reset(gui[1], core[1]), 0,
              <<>>)

\* A callback of root.after(16, self._animate) fires.
Tick ==
    /\ pc = "host"
    /\ timers > 0
    /\ \E rnd \in RndDraws : \E out \in ModuleOutputs :
          Handle("_animate", "None", _animate(gui[1], core[1], rnd, out), 1,
                 <<rnd, out>>)

NextHost ==
    \/ HostLoadRom
    \/ HostRun
    \/ HostStop
    \/ HostReset
    \/ Tick

SpecHost == InitHost /\ [][NextHost]_vars

\* ================================================================== claims
\* The state of the frame as EmulatorCore.__init__ leaves it.
AtDefaults(obj) ==
    /\ obj._frame = 0
    /\ obj.rom_path = "None"
    /\ obj.arm9 = [i \in 1..16 |-> W32(0, 0)]
    /\ obj.arm7 = [i \in 1..16 |-> W32(0, 0)]
    /\ obj.cpsr9 = W32(0, 31)
    /\ obj.cpsr7 = W32(0, 31)
    /\ obj.fb_top = ImageNew(Black)
    /\ obj.fb_bot = ImageNew(Black)

\* A candidate of _load_library loads in this environment.
SomeCandidateLoads ==
    \E i \in 1..3 : candidates(env.os_name)[i] \in env.files

\* C1: in both variants the frame counter equals the number of run_frame
\* calls since the last reset (or since construction): N calls after a reset
\* leave it at exactly N, each call adding exactly 1.
C1_FrameCountsSteps == pc = "ready" => core[1]._frame = steps

\* C1 witness: a library-bound core that was reset and then stepped MaxFrame
\* times.
C1_Witness ==
    /\ pc = "ready"
    /\ core[1].cls = "NoGbaCore"
    /\ core[1]._lib # NoLib
    /\ "nogba_reset" \in called
    /\ lastOp.op = "run_frame"
    /\ steps = MaxFrame
    /\ core[1]._frame = MaxFrame

\* C2: the frame counter is 0 when the core is constructed, and over every
\* call no operation but reset lowers it: it returns to 0 only through reset.
C2_FrameMonotone ==
    /\ core = NoCore
    /\ [][core' # NoCore =>
            IF core = NoCore
            THEN core'[1]._frame = 0
            ELSE /\ lastOp'.op # "reset" => core'[1]._frame >= core[1]._frame
                 /\ (core'[1]._frame = 0 /\ core[1]._frame # 0)
                       => lastOp'.op = "reset"]_vars

\* C2 witness: a reset brought a counter that had advanced back to 0 (the
\* framebuffer still shows a step's output).
C2_Witness ==
    /\ pc = "ready"
    /\ lastOp.op = "reset"
    /\ core[1]._frame = 0
    /\ core[1].fb_top # ImageNew(Black)

\* C3: rom_path is unset at construction and changes only in a load_rom call
\* that returns True, to the path given; run_frame and reset (and the reads)
\* leave it alone, so it survives a reset.
C3_RomPathOnlyByLoad ==
    /\ core = NoCore
    /\ [][core' # NoCore =>
            IF core = NoCore
            THEN core'[1].rom_path = "None"
            ELSE core'[1].rom_path # core[1].rom_path
                    => /\ lastOp'.op = "load_rom"
                       /\ lastOp'.ret = <<TRUE>>
                       /\ core'[1].rom_path = lastOp'.arg]_vars

\* C3 witness: after a load and some steps, a reset left the frame counter at
\* 0 and the loaded path in place.
C3_Witness ==
    /\ pc = "ready"
    /\ lastOp.op = "reset"
    /\ core[1]._frame = 0
    /\ core[1].rom_path = "game.nds"
    /\ core[1].fb_top # ImageNew(Black)

\* C4: in every variant load_rom with a path that names no readable file
\* returns False and leaves rom_path as it was.
C4_UnreadableLoadFails ==
    [][(pc = "ready" /\ lastOp'.op = "load_rom"
          /\ lastOp'.arg \notin ReadablePaths)
         => /\ lastOp'.ret = <<FALSE>>
            /\ core'[1].rom_path = core[1].rom_path]_vars

\* C5: with a library bound, a non-zero status of the module's nogba_load_rom
\* makes load_rom return False and leaves the whole object unchanged; rom_path
\* changes only when the module returned 0.
C5_ModuleRejectKeepsState ==
    [][(pc = "ready" /\ lastOp'.op = "load_rom" /\ core[1]._lib # NoLib)
         => /\ lastOp'.status # 0
                 => (lastOp'.ret = <<FALSE>> /\ core' = core)
            /\ core'[1].rom_path # core[1].rom_path
                 => lastOp'.status = 0]_vars

\* C5 witness: the module rejected a load on a core that holds an earlier
\* path and has stepped; the load returned False.
C5_Witness ==
    /\ pc = "ready"
    /\ core[1]._lib # NoLib
    /\ lastOp.op = "load_rom"
    /\ lastOp.arg = "missing.nds"
    /\ lastOp.status = 1
    /\ lastOp.ret = <<FALSE>>
    /\ core[1].rom_path = "game.nds"
    /\ core[1]._frame > 0

\* C6: when a library loads, exports every entry point and its nogba_init
\* returns non-zero, NoGbaCore() raises: the caller holds no NoGbaCore, the
\* object the constructor abandoned stays at its construction defaults, and
\* nothing but nogba_init is ever called on the module.
C6_InitFailureRaises ==
    (pc # "start" /\ SomeCandidateLoads /\ env.exports = EntryPoints
       /\ env.init_status # 0)
      => /\ ctor = "RuntimeError"
         /\ core = NoCore \/ core[1].cls = "EmulatorCore"
         /\ attempt # NoCore
         /\ AtDefaults(attempt[1])
         /\ called = {"nogba_init"}

\* C6 witness: nogba_init failed under __main__, and the fallback core has
\* since been loaded and stepped.
C6_Witness ==
    /\ pc = "ready"
    /\ site = "main"
    /\ ctor = "RuntimeError"
    /\ core[1]._frame = MaxFrame
    /\ core[1].rom_path = "game.nds"

\* C7: at every place where the host constructs a NoGbaCore, a failing
\* nogba_init ends with a synthetic core in use: whatever the environment
\* (the module's exports complete), startup ends with the host holding a core.
C7_StartupAlwaysHasCore ==
    (pc # "start" /\ env.exports = EntryPoints)
      => (pc = "ready" /\ core # NoCore)

\* C8: when no candidate loads, _load_library has tried every candidate in
\* order and returned None without raising; the constructor returns a
\* NoGbaCore without a library, and no entry point is resolved or called,
\* then or later.
C8_NotFoundIsNotFatal ==
    (pc # "start" /\ ~SomeCandidateLoads)
      => /\ tried = candidates(env.os_name)
         /\ ctor = "none"
         /\ pc = "ready"
         /\ core[1].cls = "NoGbaCore"
         /\ core[1]._lib = NoLib
         /\ resolved = {}
         /\ called = {}

\* C8 witness: a library file exists, but under a name that is no candidate
\* on this platform; the core built without it has been stepped.
C8_Witness ==
    /\ pc = "ready"
    /\ env.files = {"nogba.dll"}
    /\ tried = <<"libnogba.so", "<dir>/nogba.dll", "<dir>/libnogba.so">>
    /\ core[1]._lib = NoLib
    /\ core[1]._frame = MaxFrame

\* C9: a library that lacks any one of the eight entry points never backs a
\* core: the constructor raises AttributeError before any entry point is
\* called, and whenever an entry point has been called, all eight had been
\* resolved.
C9_MissingEntryPointFailsBinding ==
    /\ (pc # "start" /\ SomeCandidateLoads /\ env.exports # EntryPoints)
         => /\ ctor = "AttributeError"
            /\ called = {}
            /\ core = NoCore \/ core[1]._lib = NoLib
    /\ called # {} => resolved = EntryPoints
    /\ (core # NoCore /\ core[1]._lib # NoLib)
         => (resolved = EntryPoints /\ EntryPoints \subseteq env.exports)

\* C9 witness: only the last entry point resolved by _init_functions is
\* missing; the constructor raised, and the fallback core is in use.
C9_Witness ==
    /\ pc = "ready"
    /\ ctor = "AttributeError"
    /\ resolved = EntryPoints \ {"nogba_get_framebuffer_bot"}
    /\ core[1].cls = "EmulatorCore"
    /\ core[1]._frame > 0

\* C10: two independent cores without a library that stand at the same
\* frame counter after a step hold identical top and bottom framebuffers,
\* whatever registers each drew.
C10_FramebuffersFollowFrame ==
    (pc = "pair" /\ core[1]._frame = core2[1]._frame /\ core[1]._frame > 0)
      => get_framebuffers(core[1]) = get_framebuffers(core2[1])

\* C10 witness: both cores at the same frame after steps, with different
\* register draws, one of them stepped again after a reset.
C10_Witness ==
    /\ pc = "pair"
    /\ core[1]._frame = 2
    /\ core2[1]._frame = 2
    /\ core[1].arm9 # core2[1].arm9
    /\ core[1].cpsr7 # core2[1].cpsr7

\* The shape of the frame state of an object: 16 registers per CPU, one
\* 32-bit status word per CPU, two images of FB_W by FB_H.
Shape(obj) ==
    /\ Len(obj.arm9) = 16
    /\ Len(obj.arm7) = 16
    /\ Len(obj.cpsr9) = 2
    /\ Len(obj.cpsr7) = 2
    /\ obj.fb_top.size = <<256, 192>>
    /\ obj.fb_bot.size = <<256, 192>>
    /\ DOMAIN obj.fb_top.px = Coords
    /\ DOMAIN obj.fb_bot.px = Coords

\* C11: in both variants, after construction and after every load, reset and
\* step, each register array has exactly 16 entries (the 17th word of a block
\* is the status word alone) and each framebuffer is 256 wide by 192 high.
C11_ShapeInvariant ==
    /\ core # NoCore => Shape(core[1])
    /\ attempt # NoCore => Shape(attempt[1])

\* C11 witness: a library-bound core that has pulled register blocks and
\* buffers MaxFrame times after a load and a reset.
C11_Witness ==
    /\ pc = "ready"
    /\ core[1]._lib # NoLib
    /\ core[1]._frame = MaxFrame
    /\ core[1].rom_path = "game.nds"
    /\ {"nogba_reset", "nogba_get_arm9_regs"} \subseteq called

\* C18: reset, in either variant, writes nothing but _frame (0) and running
\* (False): registers, status words and framebuffers stay as the last step
\* left them, and the reads, which change nothing, return that content while
\* the frame counter is 0.
C18_ResetKeepsContent ==
    [][pc = "ready" =>
         /\ lastOp'.op = "reset"
              => core' = <<[core[1] EXCEPT !._frame = 0, !.running = FALSE]>>
         /\ lastOp'.op = "get_registers"
              => /\ core' = core
                 /\ lastOp'.ret = <<core[1].arm9, core[1].arm7,
                                    core[1].cpsr9, core[1].cpsr7>>
         /\ lastOp'.op = "get_framebuffers"
              => /\ core' = core
                 /\ lastOp'.ret = <<core[1].fb_top, core[1].fb_bot>>]_vars

\* C18 witness: a library-bound core read right after a reset that followed
\* a step: the frame counter is 0 and the framebuffers returned are not the
\* blank ones of construction.
C18_Witness ==
    /\ pc = "ready"
    /\ core[1]._lib # NoLib
    /\ "nogba_reset" \in called
    /\ lastOp.op = "get_framebuffers"
    /\ core[1]._frame = 0
    /\ steps = 0
    /\ lastOp.ret[1] # ImageNew(Black)
    /\ core[1].arm9 # [i \in 1..16 |-> W32(0, 0)]

\* C16: a NoGbaCore constructed where no library loads and an EmulatorCore,
\* given the same sequence of load_rom, reset and run_frame calls, agree after
\* every call on the frame counter, the program path, the framebuffers and
\* the result of load_rom, and no entry point of a module is ever called.
C16_StubModeIsSynthetic ==
    pc = "twin" =>
      /\ core2[1].cls = "NoGbaCore"
      /\ core[1].cls = "EmulatorCore"
      /\ core2[1]._frame = core[1]._frame
      /\ core2[1]._frame = steps
      /\ core2[1].rom_path = core[1].rom_path
      /\ core2[1].fb_top = core[1].fb_top
      /\ core2[1].fb_bot = core[1].fb_bot
      /\ lastOp.op # "__init__" => lastOp.ret[1] = lastOp.ret[2]
      /\ called = {}

\* C16 witness: after steps with different register draws and a reset, both
\* cores accepted a load of a path that names no file.
C16_Witness ==
    /\ pc = "twin"
    /\ lastOp.op = "load_rom"
    /\ lastOp.ret = <<(<<TRUE>>), (<<TRUE>>)>>
    /\ core2[1].rom_path = "missing.nds"
    /\ core2[1]._frame = 0
    /\ core2[1].fb_top # ImageNew(Black)
    /\ core2[1].arm9 # core[1].arm9

\* Bit k of the natural number n.
Bit(n, k) == (n \div (2 ^ k)) % 2

\* C12: for every 16-bit pixel p, red carries bits 11-15 of p in its bits
\* 3-7, green bits 5-10 of p in its bits 2-7, blue bits 0-4 of p in its bits
\* 3-7, in the same order; the low 3 bits of red and blue and the low 2 bits
\* of green are 0, and every channel lies in 0..255.
C12_PixelBits ==
    (pc = "pixel" /\ pixel.rgb # <<>>) =>
      LET p == pixel.src
          r == pixel.rgb[1]
          g == pixel.rgb[2]
          b == pixel.rgb[3]
      IN /\ Len(pixel.rgb) = 3
         /\ \A k \in 0..4 : Bit(r, k + 3) = Bit(p, k + 11)
         /\ \A k \in 0..5 : Bit(g, k + 2) = Bit(p, k + 5)
         /\ \A k \in 0..4 : Bit(b, k + 3) = Bit(p, k)
         /\ \A k \in 0..2 : Bit(r, k) = 0 /\ Bit(b, k) = 0
         /\ \A k \in 0..1 : Bit(g, k) = 0
         /\ r \in 0..255 /\ g \in 0..255 /\ b \in 0..255

\* C12 witness: the pixel 0xAAAA, converted to (168, 84, 80).
C12_Witness ==
    /\ pc = "pixel"
    /\ pixel.src = 43690
    /\ pixel.rgb = <<168, 84, 80>>

\* C15 as claimed: in each framebuffer both alternating band colours depend
\* on the frame counter, so a core that has gone through the frames
\* 1 .. MaxBandFrame has shown at least two colours in every band.
C15_BothBandColoursVary ==
    (pc = "bands" /\ core[1]._frame = MaxBandFrame) =>
      /\ Cardinality(seen.top0) >= 2
      /\ Cardinality(seen.top1) >= 2
      /\ Cardinality(seen.bot0) >= 2
      /\ Cardinality(seen.bot1) >= 2

\* C15 as amended: in each framebuffer the colour of the bands with
\* (y // 8) % 2 = 0 depends on the frame counter (two frames already show two
\* colours), and the colour of the other bands is one constant per image.
C15_EvenBandColoursVary ==
    pc = "bands" =>
      /\ core[1]._frame >= 2 => /\ Cardinality(seen.top0) >= 2
                                /\ Cardinality(seen.bot0) >= 2
      /\ seen.top1 \subseteq {<<42, 54, 84>>}
      /\ seen.bot1 \subseteq {<<34, 34, 34>>}
      /\ core[1]._frame >= 1 => (seen.top1 # {} /\ seen.bot1 # {})

\* C15 witness: after the frames 1 .. 8 the top image has shown its 6 colours
\* in the even bands, the bottom image its 8, the odd bands one each.
C15_Witness ==
    /\ pc = "bands"
    /\ core[1]._frame = 8
    /\ Cardinality(seen.top0) = 6
    /\ Cardinality(seen.bot0) = 8
    /\ Cardinality(seen.top1) = 1
    /\ Cardinality(seen.bot1) = 1
\* What the last completed step published: the registers and framebuffers a
\* read returns while no later step has run (construction defaults before
\* the first step).
StepContent(c, ls) ==
    IF ls = <<>>
    THEN [regs |-> get_registers(EmulatorCore_init(c.cls)),
          fbs  |-> get_framebuffers(EmulatorCore_init(c.cls))]
    ELSE IF c.cls = "NoGbaCore" /\ c._lib # NoLib
    THEN [regs |-> <<SubSeq(ls[1].out.regs9, 1, 16),
                     SubSeq(ls[1].out.regs7, 1, 16),
                     ls[1].out.regs9[17], ls[1].out.regs7[17]>>,
          fbs  |-> <<convert(ls[1].out.top), convert(ls[1].out.bot)>>]
    ELSE [regs |-> <<ls[1].rnd.r9, ls[1].rnd.r7, ls[1].rnd.c9, ls[1].rnd.c7>>,
          fbs  |-> get_framebuffers(
                       [c EXCEPT !.fb_top = _fake_framebuffers(
                                     [c EXCEPT !._frame = ls[1].n]).fb_top,
                                 !.fb_bot = _fake_framebuffers(
                                     [c EXCEPT !._frame = ls[1].n]).fb_bot])]

\* C13 as stated (violated): at every read by the host, the registers, both
\* framebuffers and the frame counter all belong to the same completed
\* step; once a step has completed, the frame counter is that step's.
C13_FrameCounterOfSameStep ==
    (pc = "host" /\ lastStep # <<>>) =>
        /\ gui[1].reg_text = StepContent(core[1], lastStep).regs
        /\ gui[1].screens = StepContent(core[1], lastStep).fbs
        /\ core[1]._frame = lastStep[1].n

\* C13 (amended): what the host has read, and what a read would return now,
\* are the registers and both framebuffers of one and the same completed step
\* (of construction before the first step); the frame counter is that
\* step's number unless a reset has happened since, and then it is 0.
C13_ReadsSeeOneCompletedStep ==
    pc = "host" =>
        /\ gui[1].reg_text = StepContent(core[1], lastStep).regs
        /\ gui[1].screens = StepContent(core[1], lastStep).fbs
        /\ get_registers(core[1]) = gui[1].reg_text
        /\ get_framebuffers(core[1]) = gui[1].screens
        /\ core[1]._frame = steps
        /\ steps > 0 => (lastStep # <<>> /\ lastStep[1].n = steps)

C13_Witness ==
    /\ pc = "host"
    /\ core[1].cls = "NoGbaCore"
    /\ core[1]._lib # NoLib
    /\ lastOp.op = "_animate"
    /\ lastStep # <<>>
    /\ lastStep[1].n = 2
    /\ core[1]._frame = 2
    /\ gui[1].screens = <<convert(lastStep[1].out.top),
                          convert(lastStep[1].out.bot)>>

\* C14: a callback of the frame loop that fires while running is False
\* returns without stepping the core, touching the module or scheduling
\* itself again; stop only clears running (it leaves the core alone), and
\* only a run request sets running.
C14_StoppedLoopDoesNotStep ==
    [][pc = "host" =>
         /\ (lastOp'.op = "_animate" /\ ~gui[1].running) =>
               /\ core' = core
               /\ called' = called
               /\ gui' = gui
               /\ timers' = timers - 1
         /\ lastOp'.op = "gui.stop" =>
               /\ ~gui'[1].running
               /\ core' = core
               /\ timers' = timers
         /\ (gui'[1].running /\ ~gui[1].running) => lastOp'.op = "gui.run"
      ]_vars

C14_Witness ==
    /\ pc = "host"
    /\ lastOp.op = "_animate"
    /\ ~gui[1].running
    /\ gui[1].statusbar = "Emulation stopped."
    /\ timers = 0
    /\ core[1]._frame = 1

\* C17 as stated (violated): no sequence of run, stop, reset and load requests
\* interleaved with timer callbacks leaves two scheduled _animate callbacks.
C17_AtMostOneCallbackScheduled ==
    pc = "host" => timers <= 1


====
